---- MODULE Spec2Model ----
(***************************************************************************)
(* State-machine model of the AI News dashboard (src/src/App.jsx with the  *)
(* NewsCard / NewsCardList components): the fan-out fetch of three news    *)
(* APIs, the normalize / concatenate / dedup / sort pipeline, the search   *)
(* filter, pagination and the bookmark list.                               *)
(*                                                                         *)
(* A handler is one action: the state updates it queues, the re-render and *)
(* the effects React flushes before the next event is handled.             *)
(***************************************************************************)
EXTENDS Integers, Sequences, FiniteSets, TLC

VARIABLES
    articles,        \* useState([])       App.jsx:13
    loading,         \* useState(true)     App.jsx:14
    error,           \* useState(null)     App.jsx:15
    searchQuery,     \* useState('')       App.jsx:16
    bookmarks,       \* useState([])       App.jsx:17
    showBookmarks,   \* useState(false)    App.jsx:18
    currentPage,     \* useState(1)        App.jsx:19
    itemsPerPage,    \* useState(12)       App.jsx:20
    viewMode,        \* useState('grid')   App.jsx:21
    darkMode,        \* useState(false)    App.jsx:22
    mobileMenuOpen,  \* useState(false)    App.jsx:23
    results,         \* the three promises handed to Promise.allSettled
    requests,        \* fetch calls this mount has made, per source
    fetchPc,         \* position of fetchAllNews
    sessionItem,     \* sessionStorage['newsBookmarks']
    localItem,       \* localStorage['darkMode']
    rootDark,        \* 'dark' in document.documentElement.classList
    innerWidth,      \* window.innerWidth
    now              \* the clock read by new Date()

vars == <<articles, loading, error, searchQuery, bookmarks, showBookmarks,
          currentPage, itemsPerPage, viewMode, darkMode, mobileMenuOpen,
          results, requests, fetchPc, sessionItem, localItem, rootDark,
          innerWidth, now>>

uiVars == <<searchQuery, bookmarks, showBookmarks, currentPage, itemsPerPage,
            viewMode, darkMode, mobileMenuOpen, sessionItem, localItem,
            rootDark, innerWidth, now>>

---------------------------------------------------------------------------
(* JavaScript values *)

Null == "<null>"
Undefined == "<undefined>"

\* Longest article list one response carries in the fetch pipeline model.
MaxItems == 2

\* Strings are sequences of one-character strings.
LowerOf(c) ==
    CASE c = "A" -> "a"
      [] c = "B" -> "b"
      [] c = "I" -> "i"
      [] OTHER -> c

\* String.prototype.toLowerCase
ToLowerCase(s) == [i \in 1..Len(s) |-> LowerOf(s[i])]

\* String.prototype.includes
Includes(s, sub) ==
    \E off \in 0..(Len(s) - Len(sub)) :
        \A k \in 1..Len(sub) : s[off + k] = sub[k]

\* Date strings the APIs can send, with the time value new Date(s) gives them
\* (valid = FALSE: Invalid Date, whose time value is NaN).
ParseDate(s) ==
    CASE s = "2024-05-01T10:00:00Z"      -> [valid |-> TRUE, ms |-> 1]
      [] s = "2024-05-02T10:00:00Z"      -> [valid |-> TRUE, ms |-> 2]
      [] s = "2024-05-02T12:00:00+02:00" -> [valid |-> TRUE, ms |-> 2]
      [] s = "2024-05-03T10:00:00Z"      -> [valid |-> TRUE, ms |-> 3]
      [] OTHER                           -> [valid |-> FALSE, ms |-> 0]

D1 == "2024-05-01T10:00:00Z"
D2 == "2024-05-02T10:00:00Z"
D2b == "2024-05-02T12:00:00+02:00"
D3 == "2024-05-03T10:00:00Z"
BadDate == "n/a"

---------------------------------------------------------------------------
(* The three responses *)

NEWSAPI == 1
GNEWS == 2
GUARDIAN == 3
Sources == {NEWSAPI, GNEWS, GUARDIAN}

ApiTag(k) ==
    CASE k = NEWSAPI -> "NewsAPI"
      [] k = GNEWS -> "GNews"
      [] OTHER -> "The Guardian"

Pending == [status |-> "pending", body |-> "none", items |-> <<>>]
Rejected == [status |-> "rejected", body |-> "none", items |-> <<>>]
\* fulfilled with the JSON value null
NullBody == [status |-> "fulfilled", body |-> "null", items |-> <<>>]
\* fulfilled with an object that has no article list (an API error object)
NoListBody == [status |-> "fulfilled", body |-> "noList", items |-> <<>>]
WithList(items) == [status |-> "fulfilled", body |-> "list", items |-> items]

Range(s) == {s[i] : i \in 1..Len(s)}

SeqsUpTo(S, n) == UNION {[1..k -> S] : k \in 0..n}

---------------------------------------------------------------------------
(* Items the APIs send.  NewsAPI and GNews items carry url, title, an      *)
(* image, source (an object with a name, or null) and publishedAt; a       *)
(* Guardian item carries id, webTitle, webUrl, fields.thumbnail and        *)
(* webPublicationDate.                                                     *)

U1 == "https://a.example/story-1"
U2 == "https://b.example/story-2"
W2 == "https://www.theguardian.com/story-2"

NewsApiItems ==
    {[url |-> U1, title |-> <<"A", "I">>, urlToImage |-> Null,
      source |-> "Wired", publishedAt |-> D1],
     [url |-> U1, title |-> <<"A", "I">>, urlToImage |-> Null,
      source |-> "Wired", publishedAt |-> BadDate],
     [url |-> U2, title |-> <<"a", "b">>, urlToImage |-> "n.png",
      source |-> "Ars", publishedAt |-> D2],
     [url |-> U2, title |-> <<"a", "b">>, urlToImage |-> "n.png",
      source |-> Null, publishedAt |-> D3]}

GNewsItems ==
    {[url |-> U1, title |-> <<"B", "i", "a">>, image |-> "g.png",
      source |-> "BBC", publishedAt |-> D2b],
     [url |-> U2, title |-> <<"a", "b">>, image |-> "h.png",
      source |-> "BBC", publishedAt |-> D1],
     [url |-> U1, title |-> <<"b">>, image |-> "g.png",
      source |-> Null, publishedAt |-> D1]}

GuardianItems ==
    {[id |-> "technology/story-1", webTitle |-> <<"a", "i">>, webUrl |-> U1,
      thumbnail |-> "t.jpg", webPublicationDate |-> D3],
     [id |-> "technology/story-1", webTitle |-> <<"a", "i">>, webUrl |-> U1,
      thumbnail |-> "t.jpg", webPublicationDate |-> D2],
     [id |-> "technology/story-2", webTitle |-> <<"I", "b">>, webUrl |-> W2,
      thumbnail |-> Undefined, webPublicationDate |-> D1]}

ItemsOf(k) ==
    CASE k = NEWSAPI -> NewsApiItems
      [] k = GNEWS -> GNewsItems
      [] OTHER -> GuardianItems

\* Every outcome of one request: rejected, or fulfilled with a body.
Outcomes(k) ==
    {Rejected, NullBody, NoListBody} \cup {WithList(l) : l \in SeqsUpTo(ItemsOf(k), MaxItems)}

---------------------------------------------------------------------------
(* fetchAllNews: normalize, concatenate, dedup, sort *)

NormalizeNewsApi(item) ==
    [id |-> item.url, title |-> item.title, url |-> item.url,
     imageUrl |-> item.urlToImage, source |-> item.source,
     publishedAt |-> item.publishedAt, apiSource |-> "NewsAPI"]

NormalizeGNews(item) ==
    [id |-> item.url, title |-> item.title, url |-> item.url,
     imageUrl |-> item.image, source |-> item.source,
     publishedAt |-> item.publishedAt, apiSource |-> "GNews"]

\* Bug variant: the Guardian record keyed by its URL and tagged as NewsAPI.
NormalizeGuardianAsNewsApi(item) ==
    [id |-> item.webUrl, title |-> item.webTitle, url |-> item.webUrl,
     imageUrl |-> item.thumbnail, source |-> "The Guardian",
     publishedAt |-> item.webPublicationDate, apiSource |-> "NewsAPI"]

NormalizeGuardian(item) ==
    [id |-> item.id, title |-> item.webTitle, url |-> item.webUrl,
     imageUrl |-> item.thumbnail, source |-> "The Guardian",
     publishedAt |-> item.webPublicationDate, apiSource |-> "The Guardian"]

Normalize(k, item) ==
    CASE k = NEWSAPI -> NormalizeNewsApi(item)
      [] k = GNEWS -> NormalizeGNews(item)
      [] OTHER -> NormalizeGuardian(item)

\* The branch condition of one source: fulfilled and the list is there.
HasList(r) == r.status = "fulfilled" /\ r.body = "list"

\* Reading a property of null throws a TypeError: value.articles on a null
\* body, article.source.name on an item whose source is null.
Throws(k, r) ==
    /\ r.status = "fulfilled"
    /\ \/ r.body = "null"
       \/ /\ k \in {NEWSAPI, GNEWS}
          /\ r.body = "list"
          /\ \E i \in 1..Len(r.items) : r.items[i].source = Null

Normalized(k, r) ==
    IF HasList(r) THEN [i \in 1..Len(r.items) |-> Normalize(k, r.items[i])] ELSE <<>>

CombinedArticles(res) ==
    Normalized(NEWSAPI, res[NEWSAPI]) \o Normalized(GNEWS, res[GNEWS])
        \o Normalized(GUARDIAN, res[GUARDIAN])

\* Map.prototype.set keyed by item.id: an existing key keeps its place and
\* takes the new value, a new key goes to the end.
MapSet(m, item) ==
    IF \E i \in 1..Len(m) : m[i].id = item.id
    THEN [i \in 1..Len(m) |-> IF m[i].id = item.id THEN item ELSE m[i]]
    ELSE Append(m, item)

RECURSIVE MapFrom(_)
MapFrom(list) ==
    IF list = <<>> THEN <<>>
    ELSE MapSet(MapFrom(SubSeq(list, 1, Len(list) - 1)), list[Len(list)])

\* Bug variant: no dedup at all.
NoDedup(combined) == combined

RECURSIVE FirstWinsFrom(_)
FirstWinsFrom(list) ==
    IF list = <<>> THEN <<>>
    ELSE LET rest == FirstWinsFrom(SubSeq(list, 1, Len(list) - 1))
             x == list[Len(list)]
         IN  IF \E i \in 1..Len(rest) : rest[i].id = x.id THEN rest ELSE Append(rest, x)

\* Bug variant: the first record of an id is kept instead of the last.
FirstWins(combined) == FirstWinsFrom(combined)

\* Array.from(new Map(combinedArticles.map(item => [item.id, item])).values())
UniqueArticles(combined) == MapFrom(combined)

\* Bug variant: a - b instead of b - a (oldest first).
SortCompareAscending(a, b) ==
    LET da == ParseDate(a.publishedAt)
        db == ParseDate(b.publishedAt)
    IN  IF da.valid /\ db.valid THEN da.ms - db.ms ELSE 0

\* (a, b) => new Date(b.publishedAt) - new Date(a.publishedAt); a NaN result
\* (an Invalid Date on either side) is taken as +0 by Array.prototype.sort.
SortCompare(a, b) ==
    LET da == ParseDate(a.publishedAt)
        db == ParseDate(b.publishedAt)
    IN  IF da.valid /\ db.valid THEN db.ms - da.ms ELSE 0

RECURSIVE Insert(_, _)
Insert(s, x) ==
    IF s = <<>> THEN <<x>>
    ELSE IF SortCompare(s[Len(s)], x) > 0
         THEN Append(Insert(SubSeq(s, 1, Len(s) - 1), x), s[Len(s)])
         ELSE Append(s, x)

RECURSIVE InsertionSort(_)
InsertionSort(list) ==
    IF list = <<>> THEN <<>>
    ELSE Insert(InsertionSort(SubSeq(list, 1, Len(list) - 1)), list[Len(list)])

RECURSIVE Merge(_, _)
Merge(a, b) ==
    IF a = <<>> THEN b
    ELSE IF b = <<>> THEN a
    ELSE IF SortCompare(Head(a), Head(b)) <= 0
         THEN <<Head(a)>> \o Merge(Tail(a), b)
         ELSE <<Head(b)>> \o Merge(a, Tail(b))

RECURSIVE MergeSort(_)
MergeSort(list) ==
    IF Len(list) <= 1 THEN list
    ELSE LET m == Len(list) \div 2
         IN  Merge(MergeSort(SubSeq(list, 1, m)), MergeSort(SubSeq(list, m + 1, Len(list))))

\* uniqueArticles.sort(...): a stable sort.  Where the comparator is
\* consistent every engine returns the same list; with an Invalid Date among
\* different valid ones the comparator is not consistent and the order is
\* the engine's: the outcomes of an insertion sort and of a merge sort.
SortOutcomes(list) == {InsertionSort(list), MergeSort(list)}

\* Bug variant: a race, the first response is enough.
AnySettled(res) == \E k \in Sources : res[k].status # "pending"

AllSettled(res) == \A k \in Sources : res[k].status # "pending"

\* The array literal handed to Promise.allSettled: one fetch call per source,
\* all three evaluated before the await.
IssueRequests(req) == [k \in Sources |-> req[k] + 1]

NoRequests == [k \in Sources |-> 0]

---------------------------------------------------------------------------
(* Actions of the fetch *)

\* Bug variant: a rejected request is sent once more.
SettleWithRetry(k, o) ==
    /\ fetchPc = "awaiting"
    /\ results[k] = Pending
    /\ IF o = Rejected /\ requests[k] < 2
       THEN /\ requests' = [requests EXCEPT ![k] = @ + 1]
            /\ UNCHANGED results
       ELSE /\ results' = [results EXCEPT ![k] = o]
            /\ UNCHANGED requests
    /\ UNCHANGED <<articles, loading, error, fetchPc>>
    /\ UNCHANGED uiVars

\* Bug variant: the outcomes are collected in the order they arrive.
SettleByArrival(k, o) ==
    /\ fetchPc = "awaiting"
    /\ \E j \in Sources :
           /\ results[j] = Pending
           /\ \A i \in Sources : i < j => results[i] # Pending
           /\ results' = [results EXCEPT ![j] = o]
    /\ UNCHANGED <<articles, loading, error, fetchPc, requests>>
    /\ UNCHANGED uiVars

\* One of the three requests settles with outcome o.
Settle(k, o) ==
    /\ fetchPc = "awaiting"
    /\ results[k] = Pending
    /\ results' = [results EXCEPT ![k] = o]
    /\ UNCHANGED <<articles, loading, error, fetchPc, requests>>
    /\ UNCHANGED uiVars

\* Bug variant: a catch that reports the failure when no source gave a list.
FetchContinueSettingError ==
    /\ fetchPc = "awaiting"
    /\ AllSettled(results)
    /\ IF \E k \in Sources : HasList(results[k])
       THEN /\ \E sorted \in SortOutcomes(UniqueArticles(CombinedArticles(results))) :
                   articles' = sorted
            /\ UNCHANGED error
       ELSE /\ error' = "Failed to fetch news"
            /\ UNCHANGED articles
    /\ loading' = FALSE
    /\ fetchPc' = "done"
    /\ UNCHANGED <<results, requests>>
    /\ UNCHANGED uiVars

\* fetchAllNews after the await: lines 40-95 run without interruption.  A
\* TypeError rejects the promise fetchAllNews returned, which nobody handles.
FetchContinue ==
    /\ fetchPc = "awaiting"
    /\ AllSettled(results)
    /\ IF \E k \in Sources : Throws(k, results[k])
       THEN /\ fetchPc' = "threw"
            /\ UNCHANGED <<articles, loading>>
       ELSE /\ \E sorted \in SortOutcomes(UniqueArticles(CombinedArticles(results))) :
                   articles' = sorted
            /\ loading' = FALSE
            /\ fetchPc' = "done"
    /\ UNCHANGED <<error, results, requests>>
    /\ UNCHANGED uiVars

---------------------------------------------------------------------------
(* The app after its first render and mount effects, in a new session *)

Widths == {500, 800, 1200}

\* Bug variant: the breakpoints belong to the narrower layout.
ItemsForWidthInclusive(w) == IF w <= 640 THEN 6 ELSE IF w <= 1024 THEN 8 ELSE 12

\* updateItemsPerPage
ItemsForWidth(w) == IF w < 640 THEN 6 ELSE IF w < 1024 THEN 8 ELSE 12

Init ==
    /\ articles = <<>>
    /\ loading = TRUE
    /\ error = Null
    /\ searchQuery = <<>>
    /\ bookmarks = <<>>
    /\ showBookmarks = FALSE
    /\ currentPage = 1
    /\ innerWidth \in Widths
    /\ itemsPerPage = ItemsForWidth(innerWidth)
    /\ viewMode = "grid"
    /\ darkMode = FALSE
    /\ mobileMenuOpen = FALSE
    /\ results = [k \in Sources |-> Pending]
    /\ requests = IssueRequests(NoRequests)
    /\ fetchPc = "awaiting"
    /\ sessionItem = [present |-> TRUE, value |-> <<>>]
    /\ localItem = "false"
    /\ rootDark = FALSE
    /\ now = 1

---------------------------------------------------------------------------
(* What a render computes from the state *)

\* Longest reading of the clock.
MaxNow == 2

\* Bug variant: the title test without toLowerCase.
TitleMatchesExactCase(article, query) == Includes(article.title, query)

\* article.title.toLowerCase().includes(searchQuery.toLowerCase())
TitleMatches(article, query) ==
    Includes(ToLowerCase(article.title), ToLowerCase(query))

\* Array.prototype.filter with the title test
RECURSIVE FilterByTitle(_, _)
FilterByTitle(list, query) ==
    IF list = <<>> THEN <<>>
    ELSE LET rest == FilterByTitle(SubSeq(list, 1, Len(list) - 1), query)
             x == list[Len(list)]
         IN  IF TitleMatches(x, query) THEN Append(rest, x) ELSE rest

FilteredArticles ==
    IF showBookmarks
    THEN FilterByTitle(bookmarks, searchQuery)
    ELSE FilterByTitle(articles, searchQuery)

\* Math.ceil(n / d) for n >= 0, d > 0
Ceil(n, d) == (n + d - 1) \div d

TotalPages == Ceil(Len(FilteredArticles), itemsPerPage)

\* Bug variant: pages counted from 0.
StartIndexFromZero(page) == page * itemsPerPage

StartIndexAt(page) == (page - 1) * itemsPerPage

\* Array.prototype.slice(from, to) with 0 <= from <= to
Slice(list, from, to) ==
    SubSeq(list, from + 1, IF to < Len(list) THEN to ELSE Len(list))

\* currentArticles as rendered when currentPage = page
CurrentArticlesAt(page) ==
    Slice(FilteredArticles, StartIndexAt(page), StartIndexAt(page) + itemsPerPage)

CurrentArticles == CurrentArticlesAt(currentPage)

IsBookmarked(articleId) ==
    \E i \in 1..Len(bookmarks) : bookmarks[i].id = articleId

\* {!loading && !error && ...}: the stats bar, the cards, the pagination
ContentShown == ~loading /\ error = Null

\* {currentArticles.length > 0 ? cards and pagination : empty state}
CardsShown == ContentShown /\ Len(CurrentArticles) > 0

\* Bug variant: the strip always centred on the current page.
PageNumCentred(total, current, i) == current - 4 + i

\* pageNum of the i-th button (i from 0) of the desktop strip
PageNum(total, current, i) ==
    IF total <= 9 THEN i + 1
    ELSE IF current <= 5 THEN i + 1
    ELSE IF current >= total - 4 THEN total - 8 + i
    ELSE current - 4 + i

\* The numbers of the buttons the strip renders, left to right: Array.from
\* over Math.min(9, totalPages) indices, null where pageNum is out of range.
PageNumbers(total, current) ==
    LET n == IF total < 9 THEN total ELSE 9
        all == [j \in 1..n |-> PageNum(total, current, j - 1)]
    IN  SelectSeq(all, LAMBDA p : ~(p < 1 \/ p > total))

\* The numbers on the desktop page buttons.
PageStrip == Range(PageNumbers(TotalPages, currentPage))

\* Pages the enabled pagination buttons ask for.
PageButtons ==
    (IF currentPage = 1 THEN {} ELSE {currentPage - 1})
    \cup (IF currentPage = TotalPages THEN {} ELSE {currentPage + 1})
    \cup PageStrip

\* JSON.stringify drops the properties whose value is undefined (of a record
\* here only imageUrl can be: a Guardian item without fields.thumbnail); the
\* text is modelled by the list JSON.parse gives back from it.
Stringify(list) ==
    [i \in 1..Len(list) |->
        [f \in {g \in DOMAIN list[i] :
                    ~(g = "imageUrl" /\ list[i][g] = Undefined)} |-> list[i][f]]]

\* Boolean.prototype.toString
BoolString(b) == IF b THEN "true" ELSE "false"

---------------------------------------------------------------------------
(* Handlers.  Each ends with the effects its state change triggers:        *)
(* bookmarks -> sessionStorage, darkMode -> localStorage and the root      *)
(* class, showBookmarks / searchQuery / viewMode -> currentPage = 1.       *)

fetchVars == <<articles, loading, error, results, requests, fetchPc>>

\* onChange of the search inputs, and the three clear-search buttons
SetSearchQuery(q) ==
    /\ searchQuery' = q
    /\ currentPage' = IF q # searchQuery THEN 1 ELSE currentPage
    /\ UNCHANGED fetchVars
    /\ UNCHANGED <<bookmarks, showBookmarks, itemsPerPage, viewMode, darkMode,
                   mobileMenuOpen, sessionItem, localItem, rootDark, innerWidth, now>>

\* The All News / Bookmarks tabs; the ones of the mobile menu close the menu.
SetShowBookmarks(b, viaMenu) ==
    /\ viaMenu => mobileMenuOpen
    /\ showBookmarks' = b
    /\ mobileMenuOpen' = IF viaMenu THEN FALSE ELSE mobileMenuOpen
    /\ currentPage' = IF b # showBookmarks THEN 1 ELSE currentPage
    /\ UNCHANGED fetchVars
    /\ UNCHANGED <<searchQuery, bookmarks, itemsPerPage, viewMode, darkMode,
                   sessionItem, localItem, rootDark, innerWidth, now>>

\* The grid / list buttons; the ones of the mobile menu close the menu.
SetViewMode(m, viaMenu) ==
    /\ viaMenu => mobileMenuOpen
    /\ viewMode' = m
    /\ mobileMenuOpen' = IF viaMenu THEN FALSE ELSE mobileMenuOpen
    /\ currentPage' = IF m # viewMode THEN 1 ELSE currentPage
    /\ UNCHANGED fetchVars
    /\ UNCHANGED <<searchQuery, bookmarks, showBookmarks, itemsPerPage, darkMode,
                   sessionItem, localItem, rootDark, innerWidth, now>>

ToggleMobileMenu ==
    /\ mobileMenuOpen' = ~mobileMenuOpen
    /\ UNCHANGED fetchVars
    /\ UNCHANGED <<searchQuery, bookmarks, showBookmarks, currentPage, itemsPerPage,
                   viewMode, darkMode, sessionItem, localItem, rootDark, innerWidth, now>>

\* Bug variant: the toggle without the effect that saves the theme.
ToggleDarkModeUnsaved ==
    /\ darkMode' = ~darkMode
    /\ rootDark' = darkMode'
    /\ UNCHANGED fetchVars
    /\ UNCHANGED <<searchQuery, bookmarks, showBookmarks, currentPage, itemsPerPage,
                   viewMode, mobileMenuOpen, sessionItem, localItem, innerWidth, now>>

ToggleDarkMode ==
    /\ darkMode' = ~darkMode
    /\ localItem' = BoolString(darkMode')
    /\ rootDark' = darkMode'
    /\ UNCHANGED fetchVars
    /\ UNCHANGED <<searchQuery, bookmarks, showBookmarks, currentPage, itemsPerPage,
                   viewMode, mobileMenuOpen, sessionItem, innerWidth, now>>

\* The resize listener: updateItemsPerPage with the new window width.
Resize(w) ==
    /\ innerWidth' = w
    /\ itemsPerPage' = ItemsForWidth(w)
    /\ UNCHANGED fetchVars
    /\ UNCHANGED <<searchQuery, bookmarks, showBookmarks, currentPage, viewMode,
                   darkMode, mobileMenuOpen, sessionItem, localItem, rootDark, now>>

PageSizes == {6, 8, 12, 16, 24}

\* Bug variant: the select without setCurrentPage(1).
SelectItemsPerPageKeepingPage(n) ==
    /\ ContentShown
    /\ itemsPerPage' = n
    /\ UNCHANGED fetchVars
    /\ UNCHANGED <<searchQuery, bookmarks, showBookmarks, currentPage, viewMode,
                   darkMode, mobileMenuOpen, sessionItem, localItem, rootDark,
                   innerWidth, now>>

\* onChange of the items-per-page select
SelectItemsPerPage(n) ==
    /\ ContentShown
    /\ itemsPerPage' = n
    /\ currentPage' = 1
    /\ UNCHANGED fetchVars
    /\ UNCHANGED <<searchQuery, bookmarks, showBookmarks, viewMode, darkMode,
                   mobileMenuOpen, sessionItem, localItem, rootDark, innerWidth, now>>

\* Bug variant: goToPage without the range test.
goToPageUnchecked(page) ==
    /\ currentPage' = page
    /\ UNCHANGED fetchVars
    /\ UNCHANGED <<searchQuery, bookmarks, showBookmarks, itemsPerPage, viewMode,
                   darkMode, mobileMenuOpen, sessionItem, localItem, rootDark,
                   innerWidth, now>>

\* goToPage(page); the scroll to the top is not part of the state.
goToPage(page) ==
    /\ currentPage' = IF page >= 1 /\ page <= TotalPages THEN page ELSE currentPage
    /\ UNCHANGED fetchVars
    /\ UNCHANGED <<searchQuery, bookmarks, showBookmarks, itemsPerPage, viewMode,
                   darkMode, mobileMenuOpen, sessionItem, localItem, rootDark,
                   innerWidth, now>>

\* goToPage from a pagination button
GoToPage(page) ==
    /\ CardsShown
    /\ TotalPages > 1
    /\ page \in PageButtons
    /\ goToPage(page)

\* { ...article, bookmarkedAt: new Date().toISOString() }
WithBookmarkedAt(article, t) ==
    [f \in DOMAIN article \cup {"bookmarkedAt"} |->
        IF f = "bookmarkedAt" THEN t ELSE article[f]]

\* Bug variant: the new bookmark goes first.
AddBookmarkFirst(prev, article, t) ==
    IF \E i \in 1..Len(prev) : prev[i].id = article.id
    THEN prev
    ELSE <<WithBookmarkedAt(article, t)>> \o prev

\* Bug variant: addBookmark without the test for an existing id.
AddBookmarkAlways(prev, article, t) == Append(prev, WithBookmarkedAt(article, t))

\* The updater addBookmark hands to setBookmarks.
AddBookmarkUpdate(prev, article, t) ==
    IF \E i \in 1..Len(prev) : prev[i].id = article.id
    THEN prev
    ELSE Append(prev, WithBookmarkedAt(article, t))

\* Bug variant: the newest bookmark is removed, whatever the id.
RemoveNewestBookmark(prev, articleId) == SubSeq(prev, 1, Len(prev) - 1)

RECURSIVE RemoveBookmarkUpdate(_, _)
\* prev.filter(bookmark => bookmark.id !== articleId)
RemoveBookmarkUpdate(prev, articleId) ==
    IF prev = <<>> THEN <<>>
    ELSE LET rest == RemoveBookmarkUpdate(SubSeq(prev, 1, Len(prev) - 1), articleId)
             x == prev[Len(prev)]
         IN  IF x.id # articleId THEN Append(rest, x) ELSE rest

bookmarkFrame ==
    <<searchQuery, showBookmarks, currentPage, itemsPerPage, viewMode, darkMode,
      localItem, rootDark, innerWidth, now>>

AddBookmark(article) ==
    /\ bookmarks' = AddBookmarkUpdate(bookmarks, article, now)
    /\ sessionItem' = [present |-> TRUE, value |-> Stringify(bookmarks')]
    /\ UNCHANGED fetchVars
    /\ UNCHANGED bookmarkFrame
    /\ UNCHANGED mobileMenuOpen

RemoveBookmark(articleId) ==
    /\ bookmarks' = RemoveBookmarkUpdate(bookmarks, articleId)
    /\ sessionItem' = [present |-> TRUE, value |-> Stringify(bookmarks')]
    /\ UNCHANGED fetchVars
    /\ UNCHANGED bookmarkFrame
    /\ UNCHANGED mobileMenuOpen

\* Bug variant: the button adds, whatever isBookmarked says.
ClickUpdateAlwaysAdds(prev, article, t) == AddBookmarkUpdate(prev, article, t)

\* What a click on the card of article does to the list prev: the card gets
\* isBookmarked(article.id) and calls removeBookmark(article.id) when it is
\* true, addBookmark(article) otherwise.
ClickUpdate(prev, article, t) ==
    IF \E i \in 1..Len(prev) : prev[i].id = article.id
    THEN RemoveBookmarkUpdate(prev, article.id)
    ELSE AddBookmarkUpdate(prev, article, t)

\* Bug variant: the click without the effect that saves the list.
ClickBookmarkUnsaved(article) ==
    /\ CardsShown
    /\ article \in Range(CurrentArticles)
    /\ bookmarks' = ClickUpdate(bookmarks, article, now)
    /\ UNCHANGED fetchVars
    /\ UNCHANGED bookmarkFrame
    /\ UNCHANGED <<mobileMenuOpen, sessionItem>>

\* handleBookmarkClick of the card that shows article
ClickBookmark(article) ==
    /\ CardsShown
    /\ article \in Range(CurrentArticles)
    /\ bookmarks' = ClickUpdate(bookmarks, article, now)
    /\ sessionItem' = [present |-> TRUE, value |-> Stringify(bookmarks')]
    /\ UNCHANGED fetchVars
    /\ UNCHANGED bookmarkFrame
    /\ UNCHANGED mobileMenuOpen

\* The Clear All buttons; the one of the mobile menu closes the menu.
ClearAllBookmarks(viaMenu) ==
    /\ Len(bookmarks) > 0
    /\ showBookmarks
    /\ IF viaMenu THEN mobileMenuOpen ELSE ContentShown
    /\ bookmarks' = <<>>
    /\ sessionItem' = [present |-> TRUE, value |-> Stringify(bookmarks')]
    /\ mobileMenuOpen' = IF viaMenu THEN FALSE ELSE mobileMenuOpen
    /\ UNCHANGED fetchVars
    /\ UNCHANGED bookmarkFrame

\* Time passes.
Tick ==
    /\ now < MaxNow
    /\ now' = now + 1
    /\ UNCHANGED fetchVars
    /\ UNCHANGED <<searchQuery, bookmarks, showBookmarks, currentPage, itemsPerPage,
                   viewMode, darkMode, mobileMenuOpen, sessionItem, localItem,
                   rootDark, innerWidth>>

\* Bug variant: the stored list is not read.
SavedBookmarksIgnored(item) == <<>>

\* JSON.parse(sessionStorage.getItem('newsBookmarks') || '[]')
SavedBookmarks(item) == IF item.present THEN item.value ELSE <<>>

\* localStorage.getItem('darkMode') === 'true'
SavedDarkMode(item) == item = "true"

\* The page is loaded again in the same browsing session: the state is the
\* initial one, the mount effects run in source order (fetchAllNews starts,
\* the stored bookmarks and theme are read, the two save effects write the
\* initial [] and false, the page size follows the width), and the render
\* that follows saves the bookmarks and the theme that were read.
Remount ==
    /\ articles' = <<>>
    /\ loading' = TRUE
    /\ error' = Null
    /\ searchQuery' = <<>>
    /\ showBookmarks' = FALSE
    /\ currentPage' = 1
    /\ viewMode' = "grid"
    /\ mobileMenuOpen' = FALSE
    /\ results' = [k \in Sources |-> Pending]
    /\ requests' = IssueRequests(NoRequests)
    /\ fetchPc' = "awaiting"
    /\ bookmarks' = SavedBookmarks(sessionItem)
    /\ sessionItem' = [present |-> TRUE, value |-> Stringify(bookmarks')]
    /\ darkMode' = SavedDarkMode(localItem)
    /\ localItem' = BoolString(darkMode')
    /\ rootDark' = darkMode'
    /\ itemsPerPage' = ItemsForWidth(innerWidth)
    /\ UNCHANGED <<innerWidth, now>>

---------------------------------------------------------------------------
(* The fetch pipeline on every combination of outcomes *)

InitFetch == Init /\ innerWidth = 1200

NextFetch ==
    \/ \E k \in Sources : \E o \in Outcomes(k) : Settle(k, o)
    \/ FetchContinue
    \/ Remount

SpecFetch == InitFetch /\ [][NextFetch]_vars

---------------------------------------------------------------------------
(* Properties of the merged list *)

Count(x, s) == Cardinality({i \in 1..Len(s) : s[i] = x})

IsPermutation(s, t) ==
    /\ Len(s) = Len(t)
    /\ \A x \in Range(s) \cup Range(t) : Count(x, s) = Count(x, t)

UniqueIds(list) ==
    \A i, j \in 1..Len(list) : i # j => list[i].id # list[j].id

\* a was published before b (both timestamps are dates)
Older(a, b) ==
    /\ ParseDate(a.publishedAt).valid
    /\ ParseDate(b.publishedAt).valid
    /\ ParseDate(a.publishedAt).ms < ParseDate(b.publishedAt).ms

NewestFirst(list) ==
    \A i \in 1..(Len(list) - 1) : ~Older(list[i], list[i + 1])

Completed == fetchPc = "done"

\* C1: after fetchAllNews completes, whatever the three sources answered, no
\* two records of articles have the same id.
C1_UniqueIdsAfterFetch == Completed => UniqueIds(articles)

C1_Witness ==
    /\ Completed
    /\ ~UniqueIds(CombinedArticles(results))
    /\ Len(articles) >= 2

\* C2: of the records of the concatenation (NewsAPI, GNews, Guardian) that
\* share an id, articles holds exactly the last one, with all its fields.
C2_LastWriteWins ==
    Completed =>
        LET c == CombinedArticles(results)
        IN  /\ \A i \in 1..Len(c) : \E a \in Range(articles) : a.id = c[i].id
            /\ \A a \in Range(articles) :
                   \E i \in 1..Len(c) :
                       /\ c[i] = a
                       /\ \A j \in (i + 1)..Len(c) : c[j].id # a.id

C2_Witness ==
    /\ Completed
    /\ LET c == CombinedArticles(results)
       IN  \E i, j \in 1..Len(c) :
               /\ i < j
               /\ c[i].id = c[j].id
               /\ c[i].apiSource # c[j].apiSource
               /\ c[i].publishedAt # c[j].publishedAt
               /\ c[j] \in Range(articles)

\* C3: after fetchAllNews completes, no record of articles is older than the
\* record after it, and articles is a permutation of the deduplicated records.
C3_SortedNewestFirst ==
    Completed =>
        /\ NewestFirst(articles)
        /\ IsPermutation(articles, UniqueArticles(CombinedArticles(results)))

C3_Witness ==
    /\ Completed
    /\ Len(articles) >= 3
    /\ articles # UniqueArticles(CombinedArticles(results))
    /\ \E i \in 1..(Len(articles) - 1) : Older(articles[i + 1], articles[i])

\* A source succeeded: its promise is fulfilled with a list whose items can
\* all be normalized.
Succeeded(k, r) == HasList(r) /\ ~Throws(k, r)

RecordsOfSucceeded(res) ==
    (IF Succeeded(NEWSAPI, res[NEWSAPI]) THEN Normalized(NEWSAPI, res[NEWSAPI]) ELSE <<>>)
    \o (IF Succeeded(GNEWS, res[GNEWS]) THEN Normalized(GNEWS, res[GNEWS]) ELSE <<>>)
    \o (IF Succeeded(GUARDIAN, res[GUARDIAN]) THEN Normalized(GUARDIAN, res[GUARDIAN]) ELSE <<>>)

\* C4: whichever sources fail (rejected, or fulfilled without a usable list),
\* once fetchAllNews has run articles holds exactly the deduplicated records
\* of the sources that succeeded.
C4_FailuresAreIsolated ==
    (fetchPc \in {"done", "threw"}) =>
        IsPermutation(articles, UniqueArticles(RecordsOfSucceeded(results)))

\* C6: two records of different sources with the same canonical URL end up
\* as a single record of articles.
C6_SameUrlCollapsed ==
    Completed =>
        LET c == CombinedArticles(results)
        IN  \A i, j \in 1..Len(c) :
                (c[i].apiSource # c[j].apiSource /\ c[i].url = c[j].url)
                    => Cardinality({n \in 1..Len(articles) : articles[n].url = c[i].url}) = 1

ArticleFields == {"id", "title", "url", "imageUrl", "source", "publishedAt", "apiSource"}

\* C7: every record of articles has the seven fields of the common shape and
\* comes from an item of the response its apiSource names: id and url are the
\* item's url for NewsAPI and GNews; for The Guardian id is the item's id, url
\* its webUrl and source is 'The Guardian'.
C7_CommonShape ==
    \A a \in Range(articles) :
        /\ DOMAIN a = ArticleFields
        /\ \E k \in Sources :
               /\ a.apiSource = ApiTag(k)
               /\ HasList(results[k])
               /\ \E n \in 1..Len(results[k].items) :
                      LET item == results[k].items[n]
                      IN  IF k = GUARDIAN
                          THEN a.id = item.id /\ a.url = item.webUrl
                               /\ a.source = "The Guardian"
                          ELSE a.id = item.url /\ a.url = item.url

C7_Witness ==
    /\ Completed
    /\ \A k \in Sources : \E a \in Range(articles) : a.apiSource = ApiTag(k)

---------------------------------------------------------------------------
(* The list view: fetch, search, tabs, view mode, theme, menu and the       *)
(* bookmark buttons, at one window width and page size                     *)

Queries == {<<>>, <<"a", "i">>, <<"I">>, <<"B">>}

ViewOutcomes(k) ==
    CASE k = NEWSAPI ->
           {Rejected,
            WithList(<<[url |-> U1, title |-> <<"A", "I">>, urlToImage |-> Null,
                        source |-> "Wired", publishedAt |-> D1],
                       [url |-> U2, title |-> <<"a", "b">>, urlToImage |-> "n.png",
                        source |-> "Ars", publishedAt |-> D2]>>)}
      [] k = GNEWS ->
           {NoListBody,
            WithList(<<[url |-> U1, title |-> <<"B", "i", "a">>, image |-> "g.png",
                        source |-> "BBC", publishedAt |-> D2b]>>)}
      [] OTHER ->
           {Rejected,
            WithList(<<[id |-> "technology/story-2", webTitle |-> <<"I", "b">>,
                        webUrl |-> W2, thumbnail |-> Undefined,
                        webPublicationDate |-> D3]>>)}

NextView ==
    \/ \E k \in Sources : \E o \in ViewOutcomes(k) : Settle(k, o)
    \/ FetchContinue
    \/ \E q \in Queries : SetSearchQuery(q)
    \/ \E b, viaMenu \in BOOLEAN : SetShowBookmarks(b, viaMenu)
    \/ \E m \in {"grid", "list"} : \E viaMenu \in BOOLEAN : SetViewMode(m, viaMenu)
    \/ ToggleMobileMenu
    \/ ToggleDarkMode
    \/ \E a \in Range(CurrentArticles) : ClickBookmark(a)
    \/ \E viaMenu \in BOOLEAN : ClearAllBookmarks(viaMenu)
    \/ Tick

SpecView == InitFetch /\ [][NextView]_vars

---------------------------------------------------------------------------
(* Pagination over lists of every length up to MaxArticles *)

\* Longest list the pagination model pages through.
MaxArticles == 26

PageItem(i) ==
    [url |-> "https://n.example/" \o ToString(i),
     title |-> IF i % 2 = 0 THEN <<"A", "I">> ELSE <<"a", "b">>,
     urlToImage |-> Null, source |-> "Wired",
     publishedAt |-> IF i % 3 = 0 THEN D1 ELSE IF i % 3 = 1 THEN D2 ELSE D3]

PageOutcomes(k) ==
    IF k = NEWSAPI
    THEN {WithList([i \in 1..n |-> PageItem(i)]) : n \in 0..MaxArticles}
    ELSE {Rejected}

NextPage ==
    \/ \E k \in Sources : \E o \in PageOutcomes(k) : Settle(k, o)
    \/ FetchContinue
    \/ \E q \in {<<>>, <<"a", "i">>} : SetSearchQuery(q)
    \/ \E n \in PageSizes : SelectItemsPerPage(n)
    \/ \E w \in Widths : Resize(w)
    \/ \E page \in PageButtons : GoToPage(page)

SpecPage == InitFetch /\ [][NextPage]_vars

---------------------------------------------------------------------------
(* Properties of the rendered list *)

SameLetter(c, d) ==
    \/ c = d
    \/ <<c, d>> \in {<<"A", "a">>, <<"a", "A">>, <<"B", "b">>, <<"b", "B">>,
                    <<"I", "i">>, <<"i", "I">>}

\* s contains sub, letter case ignored
ContainsIgnoringCase(s, sub) ==
    \E off \in 0..(Len(s) - Len(sub)) :
        \A k \in 1..Len(sub) : SameLetter(s[off + k], sub[k])

\* sub is the sub-list of list at the positions idx, in the order of list
IsSubListAt(sub, list, idx) ==
    /\ Len(sub) = Cardinality(idx)
    /\ \A i \in idx : sub[Cardinality({j \in idx : j <= i})] = list[i]

\* C8: filteredArticles is the sub-list, in the same order, of the active
\* list (bookmarks when showBookmarks, else articles) of the records whose
\* title contains the search string, letter case ignored; with an empty search
\* string it is the active list.
C8_FilterIsCaseInsensitiveSubList ==
    LET active == IF showBookmarks THEN bookmarks ELSE articles
        idx == {i \in 1..Len(active) : ContainsIgnoringCase(active[i].title, searchQuery)}
    IN  /\ IsSubListAt(FilteredArticles, active, idx)
        /\ searchQuery = <<>> => FilteredArticles = active

C8_Witness ==
    /\ showBookmarks
    /\ searchQuery = <<"I">>
    /\ Len(bookmarks) >= 3
    /\ Len(FilteredArticles) = 2
    /\ \E i \in 1..Len(bookmarks) : <<"I">> \notin {<<c>> : c \in Range(bookmarks[i].title)}

RECURSIVE PagesUpTo(_)
\* the pages 1..n one after the other
PagesUpTo(n) == IF n = 0 THEN <<>> ELSE PagesUpTo(n - 1) \o CurrentArticlesAt(n)

\* C9: totalPages is the ceiling of filteredArticles.length / itemsPerPage;
\* each page 1..totalPages is non-empty and at most itemsPerPage long, and the
\* pages in order make up filteredArticles.
C9_PagesPartitionFiltered ==
    /\ TotalPages * itemsPerPage >= Len(FilteredArticles)
    /\ (TotalPages - 1) * itemsPerPage < Len(FilteredArticles)
    /\ \A page \in 1..TotalPages :
           /\ Len(CurrentArticlesAt(page)) >= 1
           /\ Len(CurrentArticlesAt(page)) <= itemsPerPage
    /\ PagesUpTo(TotalPages) = FilteredArticles

C9_Witness ==
    /\ TotalPages >= 3
    /\ currentPage = TotalPages
    /\ Len(CurrentArticles) < itemsPerPage
    /\ searchQuery # <<>>

\* C10: addBookmark(article) for an id that is not bookmarked appends one
\* record, the article's fields unchanged plus bookmarkedAt, and leaves the
\* bookmarks there were, and their order, as they are.
C10_AddBookmarkAppends ==
    [][\A a \in Range(articles) \cup Range(bookmarks) :
           (AddBookmark(a) /\ ~IsBookmarked(a.id)) =>
               /\ Len(bookmarks') = Len(bookmarks) + 1
               /\ \A i \in 1..Len(bookmarks) : bookmarks'[i] = bookmarks[i]
               /\ LET b == bookmarks'[Len(bookmarks) + 1]
                  IN  /\ DOMAIN b = DOMAIN a \cup {"bookmarkedAt"}
                      /\ \A f \in DOMAIN a : b[f] = a[f]
                      /\ b.bookmarkedAt = now]_vars

C10_Witness ==
    /\ Len(bookmarks) >= 2
    /\ bookmarks[1].bookmarkedAt < bookmarks[2].bookmarkedAt
    /\ \E i \in 1..Len(articles) :
           /\ articles[i].id = bookmarks[2].id
           /\ \A f \in DOMAIN articles[i] : bookmarks[2][f] = articles[i][f]


---------------------------------------------------------------------------
(* A browsing session: the fetch, every handler of the page, and reloads   *)

\* Most bookmarks the session model holds at once.
MaxBookmarks == 2

\* One article more than the smallest page holds, so that there is a page 2.
SessionList == [i \in 1..(ItemsForWidth(500) + 1) |-> PageItem(i)]

SessionOutcomes(k) ==
    CASE k = NEWSAPI -> {Rejected, WithList(SessionList)}
      [] k = GNEWS -> {NoListBody}
      [] OTHER ->
           {WithList(<<[id |-> "technology/story-2", webTitle |-> <<"I", "b">>,
                        webUrl |-> W2, thumbnail |-> Undefined,
                        webPublicationDate |-> D3]>>)}

\* The window goes between the narrow and the wide layout; the select gives
\* every page size.
NextSession ==
    \/ \E k \in Sources : \E o \in SessionOutcomes(k) : Settle(k, o)
    \/ FetchContinue
    \/ \E q \in {<<>>, <<"a", "i">>} : SetSearchQuery(q)
    \/ \E b \in BOOLEAN : SetShowBookmarks(b, FALSE)
    \/ \E m \in {"grid", "list"} : SetViewMode(m, FALSE)
    \/ ToggleDarkMode
    \/ \E w \in Widths \ {800} : Resize(w)
    \/ \E n \in PageSizes : SelectItemsPerPage(n)
    \/ \E page \in PageButtons : GoToPage(page)
    \/ \E a \in Range(CurrentArticles) :
           /\ IsBookmarked(a.id) \/ Len(bookmarks) < MaxBookmarks
           /\ ClickBookmark(a)
    \/ ClearAllBookmarks(FALSE)
    \/ Remount

SpecSession == InitFetch /\ [][NextSession]_vars

---------------------------------------------------------------------------
(* Properties of a session: storage, requests, loading, page *)

\* C11: in every state sessionStorage['newsBookmarks'] holds the JSON of
\* bookmarks, and a remount gives bookmarks the list that was stored and
\* stores that same list again.
C11_BookmarksPersisted ==
    /\ [](sessionItem = [present |-> TRUE, value |-> Stringify(bookmarks)])
    /\ [][Remount => /\ bookmarks' = sessionItem.value
                     /\ sessionItem' = sessionItem]_vars

\* A remounted app (still loading) that holds stored bookmarks, one of them
\* a record JSON.stringify had dropped the undefined imageUrl of.
C11_Witness ==
    /\ loading
    /\ Len(bookmarks) = 2
    /\ \E i \in 1..Len(bookmarks) : "imageUrl" \notin DOMAIN bookmarks[i]
    /\ sessionItem.value = bookmarks

\* C12: a bookmark stays in bookmarks across every step that is not
\* removeBookmark with its id nor clearAllBookmarks.
C12_BookmarkStaysUntilRemoved ==
    [][\A i \in 1..Len(bookmarks) :
           ~(\/ RemoveBookmark(bookmarks[i].id)
             \/ ClearAllBookmarks(FALSE)
             \/ ClearAllBookmarks(TRUE))
           => \E j \in 1..Len(bookmarks') : bookmarks'[j].id = bookmarks[i].id]_vars

\* A bookmark that has been through a remount, the fetch that followed, a
\* search, a page-size choice, a resize, a theme toggle and a view change;
\* another bookmark was added after it.
C12_Witness ==
    /\ Completed
    /\ Len(bookmarks) = 2
    /\ "imageUrl" \notin DOMAIN bookmarks[1]
    /\ "imageUrl" \in DOMAIN bookmarks[2]
    /\ searchQuery # <<>>
    /\ darkMode
    /\ viewMode = "list"
    /\ innerWidth = 500
    /\ itemsPerPage = 24

\* C13: a mount has made exactly one fetch call to each source, in every
\* state: while the three are awaited, after each outcome, after every
\* state change.
C13_OneRequestPerSource == \A k \in Sources : requests[k] = 1

\* NewsAPI has been rejected, fetchAllNews has finished and the state has
\* changed since.
C13_Witness ==
    /\ results[NEWSAPI] = Rejected
    /\ Completed
    /\ requests[NEWSAPI] = 1
    /\ showBookmarks
    /\ darkMode

\* C14: in every state the root carries 'dark' exactly when darkMode is true
\* and localStorage['darkMode'] is darkMode.toString(); a remount gives
\* darkMode the stored value.
C14_ThemeInSyncAndPersisted ==
    /\ []((rootDark <=> darkMode) /\ localItem = BoolString(darkMode))
    /\ [][Remount => darkMode' = (localItem = "true")]_vars

\* A remounted app (loading, with stored bookmarks) that came back dark.
C14_Witness ==
    /\ darkMode
    /\ rootDark
    /\ localItem = "true"
    /\ loading
    /\ Len(bookmarks) = 1

\* r holds what source k sends.
IsResponseOf(k, r) == r.body = "list" => Range(r.items) \subseteq ItemsOf(k)

\* C15: whatever order the three requests settle in, each outcome is in its
\* source's position of results, and once fetchAllNews has run articles is
\* the sorted, deduplicated concatenation (NewsAPI, GNews, Guardian) of those
\* positions: the list is decided by the contents alone.
C15_ArrivalOrderIrrelevant ==
    /\ \A k \in Sources : IsResponseOf(k, results[k])
    /\ Completed =>
           /\ AllSettled(results)
           /\ articles \in SortOutcomes(UniqueArticles(CombinedArticles(results)))

\* All three lists have arrived, two sources sent the same url, and the
\* Guardian's record is not the last of the sorted list.
C15_Witness ==
    /\ Completed
    /\ \A k \in Sources : HasList(results[k]) /\ Len(results[k].items) >= 1
    /\ Len(articles) < Len(CombinedArticles(results))
    /\ articles[Len(articles)].apiSource # ApiTag(GUARDIAN)

\* C16: while a request is pending loading is true, and while loading is
\* true articles is empty; within a mount articles changes only in the step
\* that sets loading to false, and never after it.
C16_NoPartialResult ==
    /\ []((\E k \in Sources : results[k] = Pending) => loading)
    /\ [](loading => articles = <<>>)
    /\ [][~Remount =>
              /\ articles' # articles => loading /\ ~loading'
              /\ ~loading => articles' = articles /\ ~loading']_vars

\* One list has arrived, another request is still pending, nothing is shown.
C16_Witness ==
    /\ HasList(results[NEWSAPI])
    /\ Len(results[NEWSAPI].items) >= 1
    /\ results[GUARDIAN] = Pending
    /\ loading
    /\ articles = <<>>

\* C17 as stated: once the three requests have settled and fetchAllNews has
\* run to its end, by its last line or by an exception, loading is false.
C17_LoadingEndsWhenSettled ==
    (AllSettled(results) /\ fetchPc # "awaiting") => ~loading

\* C18: error is null in every state; when every source has failed
\* (rejected, or fulfilled without an article list) and fetchAllNews has
\* run, loading is false, articles is empty and the page shows the
\* empty-list view.
C18_ErrorStaysNull ==
    /\ error = Null
    /\ (/\ fetchPc # "awaiting"
        /\ \A k \in Sources : results[k] \in {Rejected, NoListBody})
       => /\ ~loading
          /\ articles = <<>>
          /\ ContentShown
          /\ ~CardsShown

\* The three requests were rejected and fetchAllNews has finished.
C18_Witness ==
    /\ \A k \in Sources : results[k] = Rejected
    /\ fetchPc = "done"
    /\ ~loading

\* C19: every step that changes showBookmarks, searchQuery or viewMode, and
\* every choice in the items-per-page select, leaves currentPage at 1.
C19_PageResetOnViewChange ==
    [][(\/ showBookmarks' # showBookmarks
        \/ searchQuery' # searchQuery
        \/ viewMode' # viewMode
        \/ \E n \in PageSizes : SelectItemsPerPage(n))
       => currentPage' = 1]_vars

\* Page 1 of several, in the list view, with a page size only the select
\* gives at this width.
C19_Witness ==
    /\ currentPage = 1
    /\ TotalPages > 1
    /\ viewMode = "list"
    /\ itemsPerPage = 6
    /\ innerWidth = 1200

Max(a, b) == IF a >= b THEN a ELSE b

\* C20 as stated: 1 <= currentPage <= max(1, totalPages), and a non-empty
\* filteredArticles gives a non-empty currentArticles.
C20_PageInRange ==
    /\ 1 <= currentPage
    /\ currentPage <= Max(1, TotalPages)
    /\ Len(FilteredArticles) > 0 => Len(CurrentArticles) > 0

---------------------------------------------------------------------------
(* The handlers called as functions, with any argument, whatever the        *)
(* buttons on the page offer: goToPage with any page number, addBookmark    *)
(* and removeBookmark with any article                                     *)

\* Page numbers handed to goToPage: from 0 to one past the last page.
PageArgs == 0..(Ceil(MaxArticles, ItemsForWidth(500)) + 1)

NextGoTo ==
    \/ NextPage
    \/ \E page \in PageArgs : goToPage(page)

SpecGoTo == InitFetch /\ [][NextGoTo]_vars

NextCalls ==
    \/ \E k \in Sources : \E o \in SessionOutcomes(k) : Settle(k, o)
    \/ FetchContinue
    \/ \E b \in BOOLEAN : SetShowBookmarks(b, FALSE)
    \/ \E a \in Range(articles) :
           /\ IsBookmarked(a.id) \/ Len(bookmarks) < MaxBookmarks
           /\ AddBookmark(a)
    \/ \E a \in Range(articles) : RemoveBookmark(a.id)
    \/ ClearAllBookmarks(FALSE)
    \/ Tick
    \/ Remount

SpecCalls == InitFetch /\ [][NextCalls]_vars

\* C21: goToPage(page) sets currentPage to page when 1 <= page <= totalPages
\* and leaves it otherwise; it changes nothing else.
C21_GoToPageFrame ==
    [][\A page \in PageArgs :
           goToPage(page) =>
               /\ currentPage' = IF 1 <= page /\ page <= TotalPages
                                 THEN page ELSE currentPage
               /\ UNCHANGED <<articles, loading, error, searchQuery, bookmarks,
                              showBookmarks, itemsPerPage, viewMode, darkMode,
                              mobileMenuOpen, results, requests, fetchPc,
                              sessionItem, localItem, rootDark, innerWidth, now>>]_vars

\* The last of two pages of 24, reached by goToPage(2); goToPage(0) and
\* goToPage(3) are calls out of range.
C21_Witness ==
    /\ currentPage = 2
    /\ TotalPages = 2
    /\ itemsPerPage = 24
    /\ CardsShown

\* C22: addBookmark with an article whose id is bookmarked leaves bookmarks
\* as it is, the record and its bookmarkedAt included; bookmarks never holds
\* two records with one id.
C22_AddBookmarkIdempotent ==
    /\ [](UniqueIds(bookmarks))
    /\ [][\A a \in Range(articles) :
              (AddBookmark(a) /\ IsBookmarked(a.id)) => bookmarks' = bookmarks]_vars

\* An article bookmarked at time 1 while the clock reads 2: addBookmark with
\* it now would stamp another time.
C22_Witness ==
    /\ now = 2
    /\ Len(bookmarks) = 2
    /\ bookmarks[1].bookmarkedAt = 1
    /\ \E a \in Range(articles) : a.id = bookmarks[1].id

\* C23: removeBookmark(id) leaves the bookmarks with another id, in their
\* order, and no bookmark with that id; clearAllBookmarks leaves none;
\* articles is the same after both.
C23_RemoveAndClear ==
    [][/\ \A a \in Range(articles) :
              RemoveBookmark(a.id) =>
                  /\ bookmarks' = SelectSeq(bookmarks, LAMBDA b : b.id # a.id)
                  /\ articles' = articles
       /\ (ClearAllBookmarks(FALSE) \/ ClearAllBookmarks(TRUE)) =>
              /\ bookmarks' = <<>>
              /\ articles' = articles]_vars

\* Two bookmarks saved at different times, shown on the bookmarks tab, and
\* an article that is not bookmarked: removeBookmark has an id to remove,
\* another to keep and one to ignore.
C23_Witness ==
    /\ showBookmarks
    /\ Len(bookmarks) = 2
    /\ bookmarks[1].bookmarkedAt < bookmarks[2].bookmarkedAt
    /\ \E a \in Range(articles) : ~IsBookmarked(a.id)
    /\ \E i \in 1..Len(articles) : articles[i].id = bookmarks[1].id

BookmarkedIds(list) == {list[i].id : i \in 1..Len(list)}

\* C24: a click on a card removes the card's id from the bookmarked ids when
\* it is among them and adds it when it is not; a second click on the same
\* card, at the same or a later time, gives back the ids there were.
C24_CardButtonToggles ==
    /\ [](\A a \in Range(CurrentArticles) : \A t \in now..MaxNow :
              BookmarkedIds(ClickUpdate(ClickUpdate(bookmarks, a, now), a, t))
                  = BookmarkedIds(bookmarks))
    /\ [][\A a \in Range(CurrentArticles) :
              ClickBookmark(a) =>
                  BookmarkedIds(bookmarks') =
                      IF a.id \in BookmarkedIds(bookmarks)
                      THEN BookmarkedIds(bookmarks) \ {a.id}
                      ELSE BookmarkedIds(bookmarks) \cup {a.id}]_vars

\* The list view of All News shows a card that is bookmarked and a card that
\* is not.
C24_Witness ==
    /\ ~showBookmarks
    /\ viewMode = "list"
    /\ CardsShown
    /\ \E a, b \in Range(CurrentArticles) :
           IsBookmarked(a.id) /\ ~IsBookmarked(b.id)

\* Most pages the strip is computed for.
MaxPages == 12

\* strip holds min(9, total) consecutive numbers of 1..total, current among
\* them.
StripIsWindow(strip, total, current) ==
    /\ Len(strip) = IF total < 9 THEN total ELSE 9
    /\ \A i \in 1..(Len(strip) - 1) : strip[i + 1] = strip[i] + 1
    /\ \A i \in 1..Len(strip) : 1 <= strip[i] /\ strip[i] <= total
    /\ \E i \in 1..Len(strip) : strip[i] = current

\* C25: for every totalPages from 2 to MaxPages and every currentPage of
\* 1..totalPages, and so for the strip of every page that shows one, the
\* buttons are min(9, totalPages) consecutive numbers within 1..totalPages
\* with currentPage among them.
C25_PageStripIsWindow ==
    /\ \A total \in 2..MaxPages : \A current \in 1..total :
           StripIsWindow(PageNumbers(total, current), total, current)
    /\ (CardsShown /\ TotalPages > 1) =>
           StripIsWindow(PageNumbers(TotalPages, currentPage), TotalPages, currentPage)

\* The pagination of a five-page list, on its last page.
C25_Witness ==
    /\ CardsShown
    /\ TotalPages = 5
    /\ currentPage = 5
    /\ PageStrip = 1..5

---------------------------------------------------------------------------
(* The page size: window widths on both sides of the breakpoints, the       *)
(* select, reloads                                                         *)

\* Widths next to the breakpoints 640 and 1024.
EdgeWidths == {639, 640, 1023, 1024}

NextResize ==
    \/ \E k \in Sources : \E o \in SessionOutcomes(k) : Settle(k, o)
    \/ FetchContinue
    \/ \E w \in Widths \cup EdgeWidths : Resize(w)
    \/ \E n \in PageSizes : SelectItemsPerPage(n)
    \/ \E page \in PageButtons : GoToPage(page)
    \/ Remount

SpecResize == InitFetch /\ [][NextResize]_vars

\* C26: itemsPerPage is one of 6, 8, 12, 16, 24 in every state, and after
\* every resize event and every mount it is 6 below 640, 8 from 640 and
\* below 1024, 12 from 1024.
C26_ResponsiveItemsPerPage ==
    /\ [](itemsPerPage \in {6, 8, 12, 16, 24})
    /\ [][((\E w \in Widths \cup EdgeWidths : Resize(w)) \/ Remount) =>
              itemsPerPage' = IF innerWidth' < 640 THEN 6
                              ELSE IF innerWidth' < 1024 THEN 8
                              ELSE 12]_vars

\* A window exactly 640 wide after the fetch: 8 items per page, all the
\* articles on one page.
C26_Witness ==
    /\ innerWidth = 640
    /\ itemsPerPage = 8
    /\ Completed
    /\ Len(articles) = 8
    /\ TotalPages = 1

\* C27 as stated: once the select has given itemsPerPage a value the width
\* would not give, only another choice in the select (or a reload) changes
\* itemsPerPage.
C27_ChoiceStays ==
    [][(/\ itemsPerPage # ItemsForWidth(innerWidth)
        /\ ~Remount
        /\ ~(\E n \in PageSizes : SelectItemsPerPage(n)))
       => itemsPerPage' = itemsPerPage]_vars

====
